---- MODULE Spec2Model ----
(***************************************************************************)
(* The to-do view-model of todo-web-app: the TodoApp component with its    *)
(* task collection, input buffers, theme flag and the two localStorage     *)
(* keys it mirrors them to.  The repository holds two copies of the        *)
(* component: src/unnamed/part_000 (records carry dateCreated, the list is *)
(* shown sorted) and src/src/TodoApp.tsx (no dateCreated, the list is      *)
(* shown in insertion order).  `build` says which copy is mounted.         *)
(*                                                                         *)
(* JavaScript values are modelled as follows.                              *)
(*   string              a sequence of one-character strings (so that trim *)
(*                       can be computed), wrapped as an item when it is a *)
(*                       localStorage value                                *)
(*   null / undefined    Null / Undefined                                  *)
(*   Date                [type |-> "Date", time |-> ms]                    *)
(*   ISO date string     [type |-> "string", iso |-> ms]                   *)
(*   object              a record; an absent key is an absent field        *)
(*   array               [type |-> "array", items |-> sequence]            *)
(***************************************************************************)
EXTENDS Integers, Sequences

VARIABLES
    build,        \* which copy of the component runs: "part_000" or "TodoApp.tsx"
    pc,           \* "start": before TodoApp() runs; "render": a render is due;
                  \* "mounted"; "crashed": an uncaught exception unmounted
                  \* the component
    todos,        \* the useState cell of the collection: a JavaScript value
    inputTitle, inputNote, showInputs, isDarkTheme,   \* the other useState cells
    displayed,    \* the records of the rendered todo-grid, in order
    bodyClass,    \* document.body.className
    localStorage, \* the item under each of the two keys
    now,          \* the clock: what Date.now() and new Date() read
    failures      \* how many calls of localStorage.setItem have thrown

vars == <<build, pc, todos, inputTitle, inputNote, showInputs, isDarkTheme,
          displayed, bodyClass, localStorage, now, failures>>

\* ------------------------------------------------------------------ bounds

\* Most records the collection is grown to.
MaxTodos == 2
\* Most records of a snapshot found in the store at startup; their ids are
\* 1..MaxStored, timestamps of an earlier session.
MaxStored == 2
\* Most records of a collection given to the display ordering, and the latest
\* of their timestamps.
MaxSortLen == 3
MaxDate == 3
\* Most milliseconds the clock advances during the session: Date.now() reads
\* MaxStored+1 .. MaxStored+1+MaxTicks.
MaxTicks == 1

\* Most calls of localStorage.setItem that throw during the session.
MaxFailures == 1

\* ------------------------------------------------------------- JS values

Null == [type |-> "null"]
Undefined == [type |-> "undefined"]
Date(ms) == [type |-> "Date", time |-> ms]
IsoString(ms) == [type |-> "string", iso |-> ms]
Array(items) == [type |-> "array", items |-> items]
Number(n) == [type |-> "number", n |-> n]

\* A localStorage value that is the plain text s (a TLA+ string).
Text(s) == [type |-> "string", text |-> s]
\* A localStorage value that is the JSON encoding of v.
JsonText(v) == [type |-> "string", json |-> v]

STORAGE_KEY == "todoApp.todos"
THEME_STORAGE_KEY == "todoApp.theme"

\* String.prototype.trim on a sequence of characters.
RECURSIVE trimStart(_)
trimStart(s) ==
    IF s # <<>> /\ Head(s) = " " THEN trimStart(Tail(s)) ELSE s

RECURSIVE trimEnd(_)
trimEnd(s) ==
    IF s # <<>> /\ s[Len(s)] = " " THEN trimEnd(SubSeq(s, 1, Len(s) - 1)) ELSE s

trim(s) == trimEnd(trimStart(s))

\* JavaScript truthiness of the values a stored item or a dateCreated can be.
Truthy(v) ==
    /\ v # Null
    /\ v # Undefined
    /\ v # Text("")

\* obj.key: Undefined when the key is absent.
Get(obj, key) == IF key \in DOMAIN obj THEN obj[key] ELSE Undefined

\* {...obj, key: v}
With(obj, key, v) ==
    [k \in DOMAIN obj \cup {key} |-> IF k = key THEN v ELSE obj[k]]

\* obj without key.
Without(obj, key) == [k \in DOMAIN obj \ {key} |-> obj[k]]

\* ------------------------------------------------------------------ JSON

\* Date.prototype.toJSON is toISOString; JSON.stringify leaves out a key
\* whose value is undefined and copies every other value.
toJSON(todo) ==
    LET d == Get(todo, "dateCreated") IN
    IF d = Undefined THEN Without(todo, "dateCreated")
    ELSE IF d.type = "Date" THEN With(todo, "dateCreated", IsoString(d.time))
    ELSE todo

\* JSON.stringify of an array of todos: the text stored under STORAGE_KEY.
JSON_stringify(arr) ==
    JsonText(Array([i \in 1..Len(arr) |-> toJSON(arr[i])]))

\* JSON.parse: the encoded value, or a SyntaxError for text that is no JSON.
JSON_parse(item) ==
    IF "json" \in DOMAIN item
    THEN [threw |-> FALSE, value |-> item.json]
    ELSE [threw |-> TRUE, value |-> Undefined]

\* new Date(isoString)
NewDate(str) == Date(str.iso)

\* ------------------------------------------------------ load and save

\* Load of src/unnamed/part_000.  Inside the try, JSON.parse throws on text
\* that is no JSON, todos.map throws when the parsed value is no array, and
\* todo.dateCreated throws when an element is null; the catch logs and
\* returns [].  The result: the value returned and whether console.error ran.
loadTodosFromStorage(storage) ==
    LET storedTodo == storage[STORAGE_KEY]
        parsed == JSON_parse(storedTodo)
        caught == [value |-> Array(<<>>), logged |-> TRUE]
    IN  IF ~Truthy(storedTodo) THEN [value |-> Array(<<>>), logged |-> FALSE]
        ELSE IF parsed.threw THEN caught
        ELSE IF parsed.value.type # "array" THEN caught
        ELSE IF \E i \in 1..Len(parsed.value.items) : parsed.value.items[i] = Null
             THEN caught
        ELSE [value |-> Array([i \in 1..Len(parsed.value.items) |->
                        LET todo == parsed.value.items[i] IN
                        With(todo, "dateCreated",
                             IF Truthy(Get(todo, "dateCreated"))
                             THEN NewDate(todo.dateCreated)
                             ELSE Undefined)]),
              logged |-> FALSE]

\* Load of src/src/TodoApp.tsx: whatever JSON.parse returns.
loadTodosFromStorage_tsx(storage) ==
    LET storedTodo == storage[STORAGE_KEY]
        parsed == JSON_parse(storedTodo)
    IN  IF ~Truthy(storedTodo) THEN [value |-> Array(<<>>), logged |-> FALSE]
        ELSE IF parsed.threw THEN [value |-> Array(<<>>), logged |-> TRUE]
        ELSE [value |-> parsed.value, logged |-> FALSE]

\* localStorage.setItem(key, value): with writeOk the item is replaced, and
\* without (the quota is exceeded, the store is disabled) setItem throws and
\* the store is as it was.
setItem(storage, key, value, writeOk) ==
    IF writeOk
    THEN [storage |-> [storage EXCEPT ![key] = value], threw |-> FALSE]
    ELSE [storage |-> storage, threw |-> TRUE]

\* A save whose catch removes the item.
saveTodosToStorage_dropOnError(storage, todosToSave, writeOk) ==
    LET set == setItem(storage, STORAGE_KEY, JSON_stringify(todosToSave), writeOk)
    IN  IF set.threw
        THEN [storage |-> [storage EXCEPT ![STORAGE_KEY] = Null], logged |-> TRUE]
        ELSE [storage |-> set.storage, logged |-> FALSE]

\* A save that leaves the store alone when the collection is empty.
saveTodosToStorage_skipEmpty(storage, todosToSave, writeOk) ==
    LET set == setItem(storage, STORAGE_KEY, JSON_stringify(todosToSave), writeOk)
    IN  IF todosToSave = <<>> THEN [storage |-> storage, logged |-> FALSE]
        ELSE [storage |-> set.storage, logged |-> set.threw]

\* Save (the same in both copies): the throw of setItem is caught and logged.
saveTodosToStorage(storage, todosToSave, writeOk) ==
    LET set == setItem(storage, STORAGE_KEY, JSON_stringify(todosToSave), writeOk)
    IN  [storage |-> set.storage, logged |-> set.threw]

\* The useEffect on [isDarkTheme]: setItem is not inside a try, so its throw
\* leaves the effect before document.body.className is assigned.
themeEffect(storage, dark, writeOk) ==
    setItem(storage, THEME_STORAGE_KEY,
            Text(IF dark THEN "dark" ELSE "light"), writeOk)

\* The initializer of isDarkTheme.
initialTheme(storage) == storage[THEME_STORAGE_KEY] = Text("dark")

\* ---------------------------------------------------------------- display

\* a.dateCreated ? new Date(a.dateCreated).getTime() : 0
dateOf(todo) ==
    IF Truthy(Get(todo, "dateCreated")) THEN todo.dateCreated.time ELSE 0

\* A comparator that puts the oldest first.
compareTodos_ascending(a, b) == dateOf(a) - dateOf(b)

\* The comparator given to sort: negative when a comes before b.
compareTodos(a, b) == dateOf(b) - dateOf(a)

\* x put into the sorted sequence s behind every element that does not come
\* after it: Array.prototype.sort is stable.
RECURSIVE insertSorted(_, _)
insertSorted(x, s) ==
    IF s = <<>> THEN <<x>>
    ELSE IF compareTodos(x, Head(s)) < 0 THEN <<x>> \o s
    ELSE <<Head(s)>> \o insertSorted(x, Tail(s))

RECURSIVE sortCopy(_, _)
sortCopy(rest, acc) ==
    IF rest = <<>> THEN acc
    ELSE sortCopy(Tail(rest), insertSorted(Head(rest), acc))

\* [...todos].sort(...): the copy is sorted, todos is what it was.
sortedTodos(arr) == [todos |-> arr, sorted |-> sortCopy(arr, <<>>)]

\* The render of the list: part_000 maps over sortedTodos, TodoApp.tsx over
\* todos.  todos: the collection after the render; sorted: what is shown.
render(b, arr) ==
    IF b = "part_000" THEN sortedTodos(arr) ELSE [todos |-> arr, sorted |-> arr]

\* Whether the first render of a loaded value throws: part_000 always loads an
\* array of objects; in TodoApp.tsx todos.map is no function on a value that
\* is no array, and todo.id throws on a null element.
renderThrows(b, value) ==
    /\ b = "TodoApp.tsx"
    /\ \/ value.type # "array"
       \/ \E i \in 1..Len(value.items) : value.items[i] = Null

\* ------------------------------------------------------------- handlers

\* A record that keeps the trimmed texts.
newTodo_trimmed(b, title, note, clock) ==
    IF b = "part_000"
    THEN [id |-> clock, title |-> trim(title), note |-> trim(note),
          completed |-> FALSE, dateCreated |-> Date(clock)]
    ELSE [id |-> clock, title |-> trim(title), note |-> trim(note),
          completed |-> FALSE]

newTodo(b, title, note, clock) ==
    IF b = "part_000"
    THEN [id |-> clock, title |-> title, note |-> note, completed |-> FALSE,
          dateCreated |-> Date(clock)]
    ELSE [id |-> clock, title |-> title, note |-> note, completed |-> FALSE]

\* A guard that takes white space for text.
canAdd_untrimmed(title, note) == title # <<>> /\ note # <<>>

\* The guard of addTodo.
canAdd(title, note) == trim(title) # <<>> /\ trim(note) # <<>>

\* [...todos, newTodo]
addTodo(arr, b, title, note, clock) == Append(arr, newTodo(b, title, note, clock))

\* A toggle that marks the record completed whatever it was.
toggleTodo_marksDone(arr, id) ==
    [i \in 1..Len(arr) |->
        IF arr[i].id = id THEN [arr[i] EXCEPT !.completed = TRUE] ELSE arr[i]]

\* todos.map(todo => todo.id === id ? {...todo, completed: !todo.completed} : todo)
toggleTodo(arr, id) ==
    [i \in 1..Len(arr) |->
        IF arr[i].id = id THEN [arr[i] EXCEPT !.completed = ~@] ELSE arr[i]]

\* todos.filter(todo => todo.id !== id)
deleteTodo(arr, id) == SelectSeq(arr, LAMBDA todo : todo.id # id)

\* ------------------------------------------------------------ the store

Builds == {"part_000", "TodoApp.tsx"}

\* What the input fields are set to: empty, blank, and text with a blank
\* before it.
InputTexts == {<<>>, <<" ">>, <<" ", "a">>}

\* The clock of the session reads FirstNow..LastNow: later than the ids of
\* the stored records, which an earlier session took from its clock.
FirstNow == MaxStored + 1
LastNow == FirstNow + MaxTicks

\* An id that no record carries: stored ids and clock readings are positive.
NoSuchId == 0

\* The ids a handler is called with: those of the records of the collection
\* (the buttons of the rendered cards) and one that no record carries.
Ids(arr) == { arr[i].id : i \in 1..Len(arr) } \cup {NoSuchId}

\* A record as an earlier session wrote it, with an id in 1..n.  The
\* timestamp of a record written by part_000 is its id; a record written by
\* TodoApp.tsx has none, and part_000 reads such records too.
StoredRecords(b, n) ==
    { [id |-> i, title |-> <<"a">>, note |-> <<"a">>, completed |-> c] :
        i \in 1..n, c \in BOOLEAN }
    \cup (IF b = "part_000"
          THEN { [id |-> i, title |-> <<"a">>, note |-> <<"a">>, completed |-> c,
                  dateCreated |-> IsoString(i)] : i \in 1..n, c \in BOOLEAN }
          ELSE {})

RECURSIVE SeqsUpTo(_, _)
SeqsUpTo(S, n) ==
    IF n = 0 THEN {<<>>}
    ELSE LET shorter == SeqsUpTo(S, n - 1)
         IN  shorter \cup { Append(q, x) : q \in shorter, x \in S }

DistinctIds(arr) ==
    \A i, j \in 1..Len(arr) : arr[i].id = arr[j].id => i = j

\* The snapshots of an earlier session with at most n records, in any order
\* of insertion.
StoredCollections(b, n) ==
    { q \in SeqsUpTo(StoredRecords(b, n), n) : DistinctIds(q) }

\* What may be found under STORAGE_KEY at startup: nothing, the empty string,
\* text that is no JSON, JSON that is no array (a number, an object), an array
\* holding null, or a snapshot.
StoredTodoItems(b, n) ==
    { Null, Text(""), Text("{oops"), JsonText(Number(5)),
      JsonText([type |-> "object"]), JsonText(Array(<<Null>>)) }
    \cup { JsonText(Array(q)) : q \in StoredCollections(b, n) }

StoredThemeItems == { Null, Text("dark"), Text("light") }

\* The state before TodoApp() runs, over a store whose snapshot has at most
\* n records.
Startup(n) ==
    /\ build \in Builds
    /\ pc = "start"
    /\ todos = Undefined
    /\ inputTitle = <<>>
    /\ inputNote = <<>>
    /\ showInputs = FALSE
    /\ isDarkTheme = FALSE
    /\ displayed = <<>>
    /\ bodyClass = ""
    /\ \E t \in StoredTodoItems(build, n), th \in StoredThemeItems :
          localStorage = [k \in {STORAGE_KEY, THEME_STORAGE_KEY} |->
                            IF k = STORAGE_KEY THEN t ELSE th]
    /\ now = FirstNow
    /\ failures = 0

\* A session starts over a snapshot of at most one record.
Init == Startup(1)

\* ---------------------------------------------------------------- actions

\* Whether a call of setItem succeeds is the store's choice; it may throw
\* while fewer than MaxFailures calls have.
WriteOutcomes(failed) == IF failed < MaxFailures THEN BOOLEAN ELSE {TRUE}
Failed(threw) == IF threw THEN 1 ELSE 0

ThemeClass(dark) == IF dark THEN "dark-theme" ELSE "light-theme"

\* TodoApp(): the useState initializers, the first render and, after it, the
\* two effects in the order they are declared.  A throw of the render, or of
\* the theme effect, unmounts the component.
Mount ==
    /\ pc = "start"
    /\ LET load == IF build = "part_000"
                   THEN loadTodosFromStorage(localStorage)
                   ELSE loadTodosFromStorage_tsx(localStorage)
           dark == initialTheme(localStorage)
       IN  /\ isDarkTheme' = dark
           /\ IF renderThrows(build, load.value)
              THEN /\ todos' = load.value
                   /\ pc' = "crashed"
                   /\ UNCHANGED <<displayed, bodyClass, localStorage, failures>>
              ELSE \E todosOk \in WriteOutcomes(failures) :
                   \E themeOk \in WriteOutcomes(failures + Failed(~todosOk)) :
                     LET view == render(build, load.value.items)
                         saved == saveTodosToStorage(localStorage, view.todos, todosOk)
                         theme == themeEffect(saved.storage, dark, themeOk)
                     IN  /\ todos' = Array(view.todos)
                         /\ localStorage' = theme.storage
                         /\ failures' = failures + Failed(saved.logged)
                                                  + Failed(theme.threw)
                         /\ pc' = IF theme.threw THEN "crashed" ELSE "mounted"
                         /\ displayed' = IF theme.threw THEN <<>> ELSE view.sorted
                         /\ bodyClass' = IF theme.threw THEN bodyClass
                                         ELSE ThemeClass(dark)
    /\ UNCHANGED <<build, inputTitle, inputNote, showInputs, now>>

\* setTodos(next), the render it causes and the useEffect on [todos], whose
\* write succeeds or not as writeOk says.
Commit(next, writeOk) ==
    /\ todos' = Array(next)
    /\ LET view == render(build, next)
           saved == saveTodosToStorage(localStorage, view.todos, writeOk)
       IN  /\ failures' = failures + Failed(saved.logged)
           /\ localStorage' = saved.storage
           /\ displayed' = view.sorted

\* The click on Add Task.
AddTodo ==
    /\ pc = "mounted"
    /\ UNCHANGED <<build, pc, isDarkTheme, bodyClass, now>>
    /\ IF canAdd(inputTitle, inputNote)
       THEN /\ Len(todos.items) < MaxTodos
            /\ \E writeOk \in WriteOutcomes(failures) :
                 Commit(addTodo(todos.items, build, inputTitle, inputNote, now),
                        writeOk)
            /\ inputTitle' = <<>>
            /\ inputNote' = <<>>
            /\ showInputs' = FALSE
       ELSE UNCHANGED <<todos, displayed, localStorage, failures, inputTitle,
                        inputNote, showInputs>>

ToggleTodo(id) ==
    /\ pc = "mounted"
    /\ UNCHANGED <<build, pc, inputTitle, inputNote, showInputs, isDarkTheme,
                   bodyClass, now>>
    /\ \E writeOk \in WriteOutcomes(failures) :
         Commit(toggleTodo(todos.items, id), writeOk)

DeleteTodo(id) ==
    /\ pc = "mounted"
    /\ UNCHANGED <<build, pc, inputTitle, inputNote, showInputs, isDarkTheme,
                   bodyClass, now>>
    /\ \E writeOk \in WriteOutcomes(failures) :
         Commit(deleteTodo(todos.items, id), writeOk)

\* toggleTheme and the useEffect on [isDarkTheme].
ToggleTheme ==
    /\ pc = "mounted"
    /\ UNCHANGED <<build, todos, inputTitle, inputNote, showInputs, now>>
    /\ \E writeOk \in WriteOutcomes(failures) :
         LET theme == themeEffect(localStorage, ~isDarkTheme, writeOk)
         IN  /\ isDarkTheme' = ~isDarkTheme
             /\ localStorage' = theme.storage
             /\ failures' = failures + Failed(theme.threw)
             /\ pc' = IF theme.threw THEN "crashed" ELSE "mounted"
             /\ displayed' = IF theme.threw THEN <<>> ELSE displayed
             /\ bodyClass' = IF theme.threw THEN bodyClass
                             ELSE ThemeClass(~isDarkTheme)

ToggleInputFields ==
    /\ pc = "mounted"
    /\ showInputs' = ~showInputs
    /\ UNCHANGED <<build, pc, todos, inputTitle, inputNote, isDarkTheme, displayed,
                   bodyClass, localStorage, now, failures>>

\* The onChange of the title field.
SetInputTitle(text) ==
    /\ pc = "mounted"
    /\ inputTitle' = text
    /\ UNCHANGED <<build, pc, todos, inputNote, showInputs, isDarkTheme, displayed,
                   bodyClass, localStorage, now, failures>>

\* The onChange of the note field.
SetInputNote(text) ==
    /\ pc = "mounted"
    /\ inputNote' = text
    /\ UNCHANGED <<build, pc, todos, inputTitle, showInputs, isDarkTheme, displayed,
                   bodyClass, localStorage, now, failures>>

\* Time passes between two handlers: the clock reads a later millisecond.
Tick ==
    /\ pc = "mounted"
    /\ now < LastNow
    /\ now' = now + 1
    /\ UNCHANGED <<build, pc, todos, inputTitle, inputNote, showInputs, isDarkTheme,
                   displayed, bodyClass, localStorage, failures>>

\* The ids the handlers are called with while the component is mounted.
CallIds == IF pc = "mounted" THEN Ids(todos.items) ELSE {}

Next ==
    \/ Mount
    \/ AddTodo
    \/ \E id \in CallIds : ToggleTodo(id)
    \/ \E id \in CallIds : DeleteTodo(id)
    \/ ToggleTheme
    \/ ToggleInputFields
    \/ \E text \in InputTexts : SetInputTitle(text)
    \/ \E text \in InputTexts : SetInputNote(text)
    \/ Tick

\* The session: startup, then any handlers in any order.
Spec == Init /\ [][Next]_vars

\* Startup alone, over every snapshot of at most MaxStored records.
StartupSpec == Startup(MaxStored) /\ [][Mount]_vars

\* ------------------------------------------------- the display ordering

\* What dateCreated is in memory: part_000 holds a Date or undefined.
SortDates == {Undefined} \cup { Date(t) : t \in 1..MaxDate }

\* The collections given to the display ordering: records 1..n in insertion
\* order, each with any timestamp or none in part_000 and with no dateCreated
\* in TodoApp.tsx.
SortCollections(b) ==
    IF b = "part_000"
    THEN UNION { { [i \in 1..n |->
                     [id |-> i, title |-> <<"a">>, note |-> <<"a">>,
                      completed |-> FALSE, dateCreated |-> d[i]]] :
                   d \in [1..n -> SortDates] } : n \in 0..MaxSortLen }
    ELSE { [i \in 1..n |->
             [id |-> i, title |-> <<"a">>, note |-> <<"a">>, completed |-> FALSE]] :
           n \in 0..MaxSortLen }

SortInit ==
    /\ build \in Builds
    /\ pc = "render"
    /\ \E q \in SortCollections(build) : todos = Array(q)
    /\ inputTitle = <<>>
    /\ inputNote = <<>>
    /\ showInputs = FALSE
    /\ isDarkTheme = FALSE
    /\ displayed = <<>>
    /\ bodyClass = ThemeClass(FALSE)
    /\ localStorage = [k \in {STORAGE_KEY, THEME_STORAGE_KEY} |-> Null]
    /\ now = FirstNow
    /\ failures = 0

\* One render of the list.
Rerender ==
    /\ pc = "render"
    /\ LET view == render(build, todos.items)
       IN  /\ todos' = Array(view.todos)
           /\ displayed' = view.sorted
    /\ pc' = "mounted"
    /\ UNCHANGED <<build, inputTitle, inputNote, showInputs, isDarkTheme, bodyClass,
                   localStorage, now, failures>>

\* The display ordering alone, over every collection of at most MaxSortLen
\* records.
SortSpec == SortInit /\ [][Rerender]_vars

\* ------------------------------------------------------------ properties

\* A text with nothing but white space in it.
Blank(text) == \A i \in 1..Len(text) : text[i] = " "

HasTimestamp(todo) == Get(todo, "dateCreated") # Undefined

\* The serialized record r says what the record todo of the collection says:
\* the same id, title, note and completed flag, the same timestamp as an ISO
\* string, and no field more.
SerializationOf(r, todo) ==
    /\ r.id = todo.id
    /\ r.title = todo.title
    /\ r.note = todo.note
    /\ r.completed = todo.completed
    /\ IF HasTimestamp(todo)
       THEN /\ DOMAIN r = {"id", "title", "note", "completed", "dateCreated"}
            /\ r.dateCreated = IsoString(todo.dateCreated.time)
       ELSE DOMAIN r = {"id", "title", "note", "completed"}

\* The item is the serialization of exactly the collection arr.
SnapshotOf(item, arr) ==
    /\ "json" \in DOMAIN item
    /\ item.json.type = "array"
    /\ Len(item.json.items) = Len(arr)
    /\ \A i \in 1..Len(arr) : SerializationOf(item.json.items[i], arr[i])

\* C1: while every write to the store has succeeded, after startup and after
\* every Add, Toggle and Delete the item under 'todoApp.todos' is the
\* serialization of exactly the collection in memory.
C1_PersistedMirrorsCollection ==
    (pc = "mounted" /\ failures = 0)
        => SnapshotOf(localStorage[STORAGE_KEY], todos.items)

\* A record added in this session was toggled, and the store has it so.
C1_Witness ==
    /\ pc = "mounted"
    /\ failures = 0
    /\ Len(todos.items) = 2
    /\ \E i \in 1..Len(todos.items) :
          todos.items[i].id >= FirstNow /\ todos.items[i].completed
    /\ SnapshotOf(localStorage[STORAGE_KEY], todos.items)

\* The record after differs from the record before in its completed flag,
\* which is flipped, and in nothing else.
Flipped(before, after) ==
    /\ DOMAIN after = DOMAIN before
    /\ after.completed = ~before.completed
    /\ Without(after, "completed") = Without(before, "completed")

\* What Toggle(id) makes of the collection.
TogglePost(old, new, id) ==
    /\ Len(new) = Len(old)
    /\ \A i \in 1..Len(old) :
          IF old[i].id = id THEN Flipped(old[i], new[i]) ELSE new[i] = old[i]
    /\ (\A i \in 1..Len(old) : old[i].id # id) => new = old

\* C2: Toggle(id) flips the completed flag of the record with that id and
\* leaves its other fields, every other record, the number of records and
\* their order unchanged; for an id that no record carries it leaves the
\* collection unchanged.
C2_ToggleFlipsOnlyCompleted ==
    [][\A id \in CallIds :
          ToggleTodo(id) => TogglePost(todos.items, todos'.items, id)]_vars

\* A record added in this session, which Add leaves not completed, is
\* completed: Toggle has acted on it.
C2_Witness ==
    /\ pc = "mounted"
    /\ \E i \in 1..Len(todos.items) :
          todos.items[i].id >= FirstNow /\ todos.items[i].completed

Carriers(arr, id) == { i \in 1..Len(arr) : arr[i].id = id }

\* new is old with the one record at position k taken out.
RemovedAt(old, new, k) ==
    /\ Len(new) = Len(old) - 1
    /\ \A i \in 1..Len(new) : new[i] = IF i < k THEN old[i] ELSE old[i + 1]

\* C3: Delete(id) removes exactly the matching record, so that the
\* collection shrinks by exactly one, and the remaining records keep their
\* field values and their relative order; for an id that no record carries it
\* leaves the collection unchanged.
C3_DeleteRemovesExactlyOne ==
    [][\A id \in CallIds :
          DeleteTodo(id) =>
              IF Carriers(todos.items, id) = {}
              THEN todos'.items = todos.items
              ELSE \E k \in Carriers(todos.items, id) :
                      RemovedAt(todos.items, todos'.items, k)]_vars

\* C4: Add with a title and a note that are both not blank makes the
\* collection one longer: the old records, unchanged and in the same order,
\* and behind them one record with the entered title and note and
\* completed = false.
C4_AddAppendsOne ==
    [][(AddTodo /\ ~Blank(inputTitle) /\ ~Blank(inputNote)) =>
          /\ Len(todos'.items) = Len(todos.items) + 1
          /\ SubSeq(todos'.items, 1, Len(todos.items)) = todos.items
          /\ todos'.items[Len(todos'.items)].title = inputTitle
          /\ todos'.items[Len(todos'.items)].note = inputNote
          /\ todos'.items[Len(todos'.items)].completed = FALSE]_vars

\* A record of this session with the title as it was entered, the blank
\* before it included, behind a record that was there before it.
C4_Witness ==
    /\ pc = "mounted"
    /\ Len(todos.items) = 2
    /\ todos.items[2].id >= FirstNow
    /\ todos.items[2].title = <<" ", "a">>
    /\ ~todos.items[2].completed

\* C5: Add with a blank title or a blank note leaves the collection, the
\* input buffers and the open or closed state of the input panel as they were.
C5_BlankAddChangesNothing ==
    [][(AddTodo /\ (Blank(inputTitle) \/ Blank(inputNote))) =>
          UNCHANGED <<todos, inputTitle, inputNote, showInputs>>]_vars

\* The state in which Add Task is clicked with a title of white space alone
\* beside a note, the panel open and a record in the collection; being left
\* as it is, it is also the state after the click.
C5_Witness ==
    /\ pc = "mounted"
    /\ inputTitle = <<" ">>
    /\ inputNote = <<" ", "a">>
    /\ showInputs
    /\ Len(todos.items) = 1
    /\ ENABLED AddTodo

\* C6: in every state of a session no two records of the collection have the
\* same identifier.
C6_IdsAreUnique == pc = "mounted" => DistinctIds(todos.items)

\* C7: whatever is under the persisted key, Load returns a collection, and an
\* empty one when the text there cannot be deserialized.
C7_LoadReturnsCollection ==
    [][pc = "start" =>
          /\ todos'.type = "array"
          /\ (Truthy(localStorage[STORAGE_KEY])
                 /\ "json" \notin DOMAIN localStorage[STORAGE_KEY])
              => todos'.items = <<>>]_vars

\* new is what is left of old without the records that carry id.
DeletePost(old, new, id) == new = SelectSeq(old, LAMBDA todo : todo.id # id)

\* new is old and one record of the entered title and note behind it.
AddPost(old, new, title, note) ==
    /\ Len(new) = Len(old) + 1
    /\ SubSeq(new, 1, Len(old)) = old
    /\ new[Len(new)].title = title
    /\ new[Len(new)].note = note

\* The throw of the write was caught, and the store is as it was.
WriteFailureContained ==
    /\ pc' = "mounted"
    /\ localStorage' = localStorage

\* C8: when the write of the collection fails after an Add, a Toggle or a
\* Delete, nothing is thrown to the caller, the collection in memory is the
\* result of the mutation, and the persisted snapshot is what it was before.
C8_FailedWriteKeepsMutation ==
    [][failures' > failures =>
          /\ \A id \in CallIds :
               /\ ToggleTodo(id) =>
                     /\ WriteFailureContained
                     /\ TogglePost(todos.items, todos'.items, id)
               /\ DeleteTodo(id) =>
                     /\ WriteFailureContained
                     /\ DeletePost(todos.items, todos'.items, id)
          /\ AddTodo =>
               /\ WriteFailureContained
               /\ AddPost(todos.items, todos'.items, inputTitle, inputNote)]_vars

\* The store holds a record of this session, so a write after an Add went
\* through, and it is not the snapshot of the collection in memory: the write
\* after a later mutation failed, and the component is still mounted.
C8_Witness ==
    /\ pc = "mounted"
    /\ failures > 0
    /\ "json" \in DOMAIN localStorage[STORAGE_KEY]
    /\ localStorage[STORAGE_KEY].json.type = "array"
    /\ \E i \in 1..Len(localStorage[STORAGE_KEY].json.items) :
          localStorage[STORAGE_KEY].json.items[i] # Null
          /\ localStorage[STORAGE_KEY].json.items[i].id >= FirstNow
    /\ ~SnapshotOf(localStorage[STORAGE_KEY], todos.items)

\* The one-to-one maps of 1..n onto itself.
Reorderings(n) ==
    { p \in [1..n -> 1..n] : \A i, j \in 1..n : p[i] = p[j] => i = j }

\* shown holds the records of arr, each once, the later timestamp first and
\* the records without timestamp behind all those with one.
NewestFirst(arr, shown) ==
    /\ Len(shown) = Len(arr)
    /\ \E p \in Reorderings(Len(arr)) : \A i \in 1..Len(arr) : shown[i] = arr[p[i]]
    /\ \A j, k \in 1..Len(shown) :
          (j < k /\ HasTimestamp(shown[k])) =>
              /\ HasTimestamp(shown[j])
              /\ shown[j].dateCreated.time >= shown[k].dateCreated.time

\* C9: the displayed sequence is a permutation of the collection, newest
\* first by creation timestamp, with every record that has no timestamp
\* behind every record that has one, whatever the insertion order; computing
\* it leaves the records and the insertion order of the collection as they
\* were.
C9_DisplayNewestFirst ==
    [][pc = "render" =>
          /\ todos' = todos
          /\ NewestFirst(todos.items, displayed')]_vars

\* Inserted as: no timestamp, the earlier timestamp, the later one; shown in
\* the opposite order.
C9_Witness ==
    /\ pc = "mounted"
    /\ build = "part_000"
    /\ Len(todos.items) = 3
    /\ ~HasTimestamp(todos.items[1])
    /\ HasTimestamp(todos.items[2])
    /\ HasTimestamp(todos.items[3])
    /\ todos.items[2].dateCreated.time < todos.items[3].dateCreated.time
    /\ displayed = <<todos.items[3], todos.items[2], todos.items[1]>>

ThemeText(dark) == Text(IF dark THEN "dark" ELSE "light")

\* C10: the theme flag starts as dark only when the persisted theme is
\* "dark"; each theme toggle flips the flag, and afterwards the value under
\* the theme key is "dark" or "light" as the flag says; a theme toggle leaves
\* the collection and its snapshot as they were, and Add, Toggle and Delete
\* leave the flag and the persisted theme as they were.
C10_ThemeFlagAndStoreAgree ==
    [][/\ pc = "start" =>
            isDarkTheme' = (localStorage[THEME_STORAGE_KEY] = Text("dark"))
       /\ ToggleTheme =>
            /\ isDarkTheme' = ~isDarkTheme
            /\ localStorage'[THEME_STORAGE_KEY] = ThemeText(isDarkTheme')
            /\ todos' = todos
            /\ localStorage'[STORAGE_KEY] = localStorage[STORAGE_KEY]
       /\ (\/ AddTodo
           \/ \E id \in CallIds : ToggleTodo(id) \/ DeleteTodo(id)) =>
            /\ isDarkTheme' = isDarkTheme
            /\ localStorage'[THEME_STORAGE_KEY] = localStorage[THEME_STORAGE_KEY]]_vars

====
